---- MODULE Spec2Model ----
(***************************************************************************)
(* Model of the melody-preview generator of src/main.py                    *)
(* (generate_melody_preview, lines 85-119).                                *)
(*                                                                         *)
(* The handler works on Python floats (IEEE-754 binary64).  A float is     *)
(* modelled exactly: it is a dyadic rational man * 2^(-exp) whose mantissa *)
(* is an arbitrary-precision natural (a little-endian sequence of limbs in *)
(* base 2^15, because the model checker's integers are 32 bits wide), and  *)
(* every float operation is the exact result rounded to 53 significant     *)
(* bits, ties to even.  All floats of the handler are finite, non-negative *)
(* and far from the subnormal and overflow ranges.                         *)
(***************************************************************************)
EXTENDS Integers, Sequences, FiniteSets

-----------------------------------------------------------------------------
(* Arbitrary-precision naturals                                             *)

BASE_BITS == 15
BASE == 32768
PREC == 53

RECURSIVE Pow2(_)
Pow2(k) == IF k = 0 THEN 1 ELSE 2 * Pow2(k - 1)

RECURSIVE BigNorm(_)
BigNorm(a) ==
    IF a = << >> THEN << >>
    ELSE IF a[Len(a)] = 0 THEN BigNorm(SubSeq(a, 1, Len(a) - 1))
    ELSE a

RECURSIVE BigFromInt(_)
BigFromInt(n) ==
    IF n = 0 THEN << >> ELSE <<n % BASE>> \o BigFromInt(n \div BASE)

RECURSIVE BigToInt(_)
BigToInt(a) ==
    IF a = << >> THEN 0 ELSE Head(a) + BASE * BigToInt(Tail(a))

RECURSIVE BigAddC(_, _, _)
BigAddC(a, b, c) ==
    IF a = << >> /\ b = << >> THEN (IF c = 0 THEN << >> ELSE <<c>>)
    ELSE LET x == IF a = << >> THEN 0 ELSE Head(a)
             y == IF b = << >> THEN 0 ELSE Head(b)
             ta == IF a = << >> THEN << >> ELSE Tail(a)
             tb == IF b = << >> THEN << >> ELSE Tail(b)
             sum == x + y + c
         IN  <<sum % BASE>> \o BigAddC(ta, tb, sum \div BASE)

BigAdd(a, b) == BigNorm(BigAddC(a, b, 0))

RECURSIVE BigMulSmallC(_, _, _)
BigMulSmallC(a, m, c) ==
    IF a = << >> THEN (IF c = 0 THEN << >> ELSE <<c>>)
    ELSE LET p == Head(a) * m + c
         IN  <<p % BASE>> \o BigMulSmallC(Tail(a), m, p \div BASE)

\* a * m for 0 <= m <= BASE
BigMulSmall(a, m) == BigNorm(BigMulSmallC(a, m, 0))

RECURSIVE BigMul(_, _)
BigMul(a, b) ==
    IF b = << >> \/ a = << >> THEN << >>
    ELSE BigAdd(BigMulSmall(a, Head(b)), BigNorm(<<0>> \o BigMul(a, Tail(b))))

\* Long division of a by 0 < d < BASE, from the top limb down; r is the
\* remainder carried in.  The quotient limbs come out little-endian.
RECURSIVE BigDivSmallR(_, _, _)
BigDivSmallR(a, d, r) ==
    IF a = << >> THEN [q |-> << >>, r |-> r]
    ELSE LET cur == r * BASE + a[Len(a)]
             rest == BigDivSmallR(SubSeq(a, 1, Len(a) - 1), d, cur % d)
         IN  [q |-> rest.q \o <<cur \div d>>, r |-> rest.r]

BigDivSmall(a, d) == BigNorm(BigDivSmallR(a, d, 0).q)
BigModSmall(a, d) == BigDivSmallR(a, d, 0).r

BigIsOdd(a) == a # << >> /\ a[1] % 2 = 1

\* a * 2^k
BigShl(a, k) ==
    IF a = << >> THEN << >>
    ELSE BigMulSmall([j \in 1..(k \div BASE_BITS) |-> 0] \o a, Pow2(k % BASE_BITS))

\* floor(a / 2^k)
BigShr(a, k) ==
    IF Len(a) <= k \div BASE_BITS THEN << >>
    ELSE BigDivSmall(SubSeq(a, (k \div BASE_BITS) + 1, Len(a)), Pow2(k % BASE_BITS))

RECURSIVE IntBitLen(_)
IntBitLen(n) == IF n = 0 THEN 0 ELSE 1 + IntBitLen(n \div 2)

BigBitLen(a) ==
    IF a = << >> THEN 0 ELSE BASE_BITS * (Len(a) - 1) + IntBitLen(a[Len(a)])

\* a / 2^k rounded to the nearest natural, ties to even
BigShrRound(a, k) ==
    IF k = 0 THEN a
    ELSE LET q == BigShr(a, k)
             top == BigShr(a, k - 1)
             half == BigIsOdd(top)
             sticky == BigShl(top, k - 1) # a
         IN  IF half /\ (sticky \/ BigIsOdd(q)) THEN BigAdd(q, <<1>>) ELSE q

-----------------------------------------------------------------------------
(* Python floats                                                            *)

\* The value man * 2^(-exp), exp >= 0, in lowest terms: exp = 0 or man odd.
RECURSIVE FloatNorm(_)
FloatNorm(x) ==
    IF x.man = << >> THEN [man |-> << >>, exp |-> 0]
    ELSE IF x.exp > 0 /\ ~BigIsOdd(x.man)
         THEN FloatNorm([man |-> BigDivSmall(x.man, 2), exp |-> x.exp - 1])
    ELSE x

\* Round an exact dyadic value to the nearest float (53 bits, ties to even).
FloatRound(x) ==
    LET k == BigBitLen(x.man) - PREC
    IN  IF k <= 0 THEN FloatNorm(x)
        ELSE LET q == BigShrRound(x.man, k)
             IN  IF x.exp >= k THEN FloatNorm([man |-> q, exp |-> x.exp - k])
                 ELSE [man |-> BigShl(q, k - x.exp), exp |-> 0]

\* float(n) for an int 0 <= n < 2^31
FloatFromInt(n) == [man |-> BigFromInt(n), exp |-> 0]

\* x + y
FloatAdd(x, y) ==
    LET e == IF x.exp >= y.exp THEN x.exp ELSE y.exp
    IN  FloatRound([man |-> BigAdd(BigShl(x.man, e - x.exp), BigShl(y.man, e - y.exp)),
                    exp |-> e])

\* x * y
FloatMul(x, y) ==
    FloatRound([man |-> BigMul(x.man, y.man), exp |-> x.exp + y.exp])

\* x / y for a divisor whose mantissa is a single limb (every divisor of the
\* handler: the clamped tempo, 0.5, and the powers of ten of round and of the
\* literals).  The quotient is cut DIV_BITS bits below the point (more than 53
\* significant bits are left) and a sticky bit keeps the rounding exact.
DIV_BITS == 70
FloatDiv(x, y) ==
    LET d == BigToInt(y.man)
        num == BigShl(x.man, DIV_BITS + y.exp)
        q == BigDivSmall(num, d)
        sticky == IF BigModSmall(num, d) = 0 THEN 0 ELSE 1
    IN  FloatRound([man |-> BigAdd(BigMulSmall(q, 2), BigFromInt(sticky)),
                    exp |-> DIV_BITS + x.exp + 1])

\* int(x) for x >= 0: truncation
FloatToInt(x) == BigToInt(BigShr(x.man, x.exp))

\* round(x, ndigits) of a float x >= 0: the decimal with ndigits places nearest
\* to the exact value of x (ties to even), converted back to the nearest float.
RECURSIVE Pow10(_)
Pow10(k) == IF k = 0 THEN 1 ELSE 10 * Pow10(k - 1)

PyRound(x, ndigits) ==
    LET n == BigShrRound(BigMulSmall(x.man, Pow10(ndigits)), x.exp)
    IN  FloatDiv([man |-> n, exp |-> 0], FloatFromInt(Pow10(ndigits)))

-----------------------------------------------------------------------------
(* Python values                                                            *)

\* A str is the sequence of its characters.  An Optional value is None or
\* Some(v), kept apart from every int and str.
None == << >>
Some(v) == <<v>>

Str_la_la_la == <<"l", "a", " ", "l", "a", " ", "l", "a">>
Str_dum_dum == <<"d", "u", "m", " ", "d", "u", "m">>

\* The line boundaries of str.splitlines and the whitespace of str.strip,
\* among the characters a TLA+ string can spell.
IsLineBoundary(ch) == ch \in {"\n", "\r", "\f"}
IsSpace(ch) == ch \in {" ", "\t", "\n", "\r", "\f"}

\* str.splitlines(): "\r\n" is one boundary, and a final boundary opens no
\* further line.  cur is the line being read.
RECURSIVE SplitFrom(_, _)
SplitFrom(str, cur) ==
    IF str = << >> THEN (IF cur = << >> THEN << >> ELSE <<cur>>)
    ELSE IF Len(str) >= 2 /\ str[1] = "\r" /\ str[2] = "\n"
         THEN <<cur>> \o SplitFrom(Tail(Tail(str)), << >>)
    ELSE IF IsLineBoundary(Head(str))
         THEN <<cur>> \o SplitFrom(Tail(str), << >>)
    ELSE SplitFrom(Tail(str), Append(cur, Head(str)))

splitlines(str) == SplitFrom(str, << >>)

RECURSIVE lstrip(_)
lstrip(str) ==
    IF str # << >> /\ IsSpace(Head(str)) THEN lstrip(Tail(str)) ELSE str

RECURSIVE rstrip(_)
rstrip(str) ==
    IF str # << >> /\ IsSpace(str[Len(str)])
    THEN rstrip(SubSeq(str, 1, Len(str) - 1)) ELSE str

strip(str) == rstrip(lstrip(str))

\* [l.strip() for l in ls if l.strip()]
RECURSIVE StripNonBlank(_)
StripNonBlank(ls) ==
    IF ls = << >> THEN << >>
    ELSE IF strip(Head(ls)) # << >>
         THEN <<strip(Head(ls))>> \o StripNonBlank(Tail(ls))
    ELSE StripNonBlank(Tail(ls))

Min(a, b) == IF a <= b THEN a ELSE b
Max(a, b) == IF a >= b THEN a ELSE b

-----------------------------------------------------------------------------
(* generate_melody_preview, expression by expression                        *)

GUIDE_AUDIO_DATA_URI ==
    "data:audio/wav;base64,UklGRiQAAABXQVZFZm10IBAAAAABAAEAESsAACJWAAACABYAAAAAAACAgICAgP//"

midi_base == 60
dur_beats == 2
step == [man |-> <<1>>, exp |-> 1]
sustain == FloatDiv(FloatFromInt(9), FloatFromInt(10))
DEFAULT_TEMPO == 96
TEMPO_MIN == 60
TEMPO_MAX == 180
MS_PER_SEC == 1000
NDIGITS == 3

\* ExtractLines keeping each line as it stands: [l for l in ... if l.strip()]
RECURSIVE NonBlank(_)
NonBlank(ls) ==
    IF ls = << >> THEN << >>
    ELSE IF strip(Head(ls)) # << >> THEN <<Head(ls)>> \o NonBlank(Tail(ls))
    ELSE NonBlank(Tail(ls))

ExtractLinesUnstripped(lyrics) ==
    LET ls == NonBlank(splitlines(lyrics))
    IN  IF ls = << >> THEN <<Str_la_la_la, Str_dum_dum>> ELSE ls

\* ExtractLines without the fallback of lines 89-90
ExtractLinesNoFallback(lyrics) == StripNonBlank(splitlines(lyrics))

\* lines 88-90
ExtractLines(lyrics) ==
    LET ls == StripNonBlank(splitlines(lyrics))
    IN  IF ls = << >> THEN <<Str_la_la_la, Str_dum_dum>> ELSE ls

\* req.tempo or 96: None and 0 are both falsy
TempoOrDefault(tempo) ==
    IF tempo = None \/ tempo[1] = 0 THEN DEFAULT_TEMPO ELSE tempo[1]

\* max(60, min(req.tempo or 96, 180))
EffectiveTempo(tempo) == Max(TEMPO_MIN, Min(TempoOrDefault(tempo), TEMPO_MAX))

\* line 91
BeatSec(tempo) == FloatDiv(FloatFromInt(60), FloatFromInt(EffectiveTempo(tempo)))

\* int(x * 1000)
ToMs(x) == FloatToInt(FloatMul(x, FloatFromInt(MS_PER_SEC)))

\* t + dur_beats * beat_sec (lines 100 and 111)
LineEnd(t, beat_sec) == FloatAdd(t, FloatMul(FloatFromInt(dur_beats), beat_sec))

\* TimestampItem with the end computed in milliseconds from the start:
\* end = start + int(dur_beats * beat_sec * 1000)
TimestampItemMsSum(line, t, beat_sec) ==
    [lineText |-> line, start_ms |-> ToMs(t),
     end_ms |-> ToMs(t) + ToMs(FloatMul(FloatFromInt(dur_beats), beat_sec))]

\* lines 98-101
TimestampItem(line, t, beat_sec) ==
    [lineText |-> line, start_ms |-> ToMs(t), end_ms |-> ToMs(LineEnd(t, beat_sec))]

\* Steps counted per beat instead of per line: int(1 / step)
StepsPerBeat == FloatToInt(FloatDiv(FloatFromInt(1), step))

\* line 104: int(dur_beats / step)
Steps == FloatToInt(FloatDiv(FloatFromInt(dur_beats), step))

\* Note with the line offset left to grow: midi_base + i * 2 + (s % 3)
NoteNoWrap(i, s, t, beat_sec) ==
    [midi |-> midi_base + i * 2 + (s % 3),
     time |-> PyRound(FloatAdd(t, FloatMul(FloatMul(FloatFromInt(s), step), beat_sec)),
                      NDIGITS),
     duration |-> PyRound(FloatMul(FloatMul(step, beat_sec), sustain), NDIGITS)]

\* lines 106-110
Note(i, s, t, beat_sec) ==
    [midi |-> midi_base + (i % 5) * 2 + (s % 3),
     time |-> PyRound(FloatAdd(t, FloatMul(FloatMul(FloatFromInt(s), step), beat_sec)),
                      NDIGITS),
     duration |-> PyRound(FloatMul(FloatMul(step, beat_sec), sustain), NDIGITS)]

\* MidiJson echoing the tempo the timing used
MidiJsonClampedTempo(notes, req) ==
    [notes |-> notes, tempo |-> Some(EffectiveTempo(req.tempo)),
     key |-> req.key, style |-> req.style]

\* line 112
MidiJson(notes, req) ==
    [notes |-> notes, tempo |-> req.tempo, key |-> req.key, style |-> req.style]

\* GuideAudioUrl set whatever the flag
GuideAudioUrlAlways(mock) == Some(GUIDE_AUDIO_DATA_URI)

\* lines 114-118
GuideAudioUrl(mock) == IF mock THEN Some(GUIDE_AUDIO_DATA_URI) ELSE None

\* line 119
MelodyPreviewResponse(midiJson, guideAudioUrl, timestamps) ==
    [midiJson |-> midiJson, guideAudioUrl |-> guideAudioUrl, timestamps |-> timestamps]

-----------------------------------------------------------------------------
(* The handler run alone, from the request to the response                  *)

\* The body of the inner loop, for s, s+1, ..., steps-1
RECURSIVE NotesFrom(_, _, _, _)
NotesFrom(s, i, t, beat_sec) ==
    IF s >= Steps THEN << >>
    ELSE <<Note(i, s, t, beat_sec)>> \o NotesFrom(s + 1, i, t, beat_sec)

\* The outer loop from line index i on, with the cursor at t
RECURSIVE LoopFrom(_, _, _, _)
LoopFrom(i, lines, t, beat_sec) ==
    IF i >= Len(lines) THEN [timestamps |-> << >>, notes |-> << >>]
    ELSE LET rest == LoopFrom(i + 1, lines, LineEnd(t, beat_sec), beat_sec)
         IN  [timestamps |-> <<TimestampItem(lines[i + 1], t, beat_sec)>> \o rest.timestamps,
              notes |-> NotesFrom(0, i, t, beat_sec) \o rest.notes]

GenerateAlone(r, mock) ==
    LET out == LoopFrom(0, ExtractLines(r.lyrics), FloatFromInt(0), BeatSec(r.tempo))
    IN  MelodyPreviewResponse(MidiJson(out.notes, r), GuideAudioUrl(mock), out.timestamps)

-----------------------------------------------------------------------------
(* Inputs                                                                   *)

MaxLyricsLen == 5
MaxLines == 6
MaxCalls == 2

Alphabet == {"a", " ", "\n", "\r"}

RECURSIVE StrsOfLen(_)
StrsOfLen(n) ==
    IF n = 0 THEN {<< >>}
    ELSE {Append(str, ch) : str \in StrsOfLen(n - 1), ch \in Alphabet}

AllLyrics == UNION {StrsOfLen(n) : n \in 0..MaxLyricsLen}

\* n lines "a", "aa", "a", "aa", ... joined by "\n"
RECURSIVE LyricsOfLines(_)
LyricsOfLines(n) ==
    IF n = 0 THEN << >>
    ELSE (IF n = 1 THEN << >> ELSE LyricsOfLines(n - 1) \o <<"\n">>)
         \o (IF n % 2 = 1 THEN <<"a">> ELSE <<"a", "a">>)

Tempos == {None} \cup {Some(n) : n \in (-1..1) \cup (58..182) \cup {30, 500}}

\* Every text at one tempo whose beat is no binary fraction; every tempo on 0..MaxLines lines; the optional fields absent,
\* defaulted and set.
TextRequests ==
    [lyrics : AllLyrics, tempo : {Some(100)}, key : {Some("C")}, style : {Some("pop")}]
TempoRequests ==
    [lyrics : {LyricsOfLines(n) : n \in 0..MaxLines}, tempo : Tempos,
     key : {Some("C")}, style : {Some("pop")}]
EchoRequests ==
    [lyrics : {LyricsOfLines(1)}, tempo : {None, Some(0), Some(96), Some(500)},
     key : {None, Some("C"), Some("G")}, style : {None, Some("pop"), Some("rock")}]
Requests == TextRequests \cup TempoRequests \cup EchoRequests

ConcurrentRequests ==
    {[lyrics |-> LyricsOfLines(2), tempo |-> Some(100), key |-> Some("C"), style |-> Some("pop")],
     [lyrics |-> LyricsOfLines(1), tempo |-> Some(500), key |-> None, style |-> Some("rock")]}

-----------------------------------------------------------------------------
(* The server: MOCK_MODE is read once at import (line 7); every request in  *)
(* flight is a call of generate_melody_preview with its own locals.         *)

VARIABLES MOCK_MODE, calls
vars == <<MOCK_MODE, calls>>

Zero == FloatFromInt(0)

NewCall(r) ==
    [pc |-> "begin", req |-> r, lines |-> << >>, beat_sec |-> Zero,
     timestamps |-> << >>, t |-> Zero, notes |-> << >>, i |-> 0, s |-> 0,
     steps |-> 0, response |-> None]

Init ==
    /\ MOCK_MODE \in BOOLEAN
    /\ calls \in [{1} -> {NewCall(r) : r \in Requests}]

InitConcurrent ==
    /\ MOCK_MODE \in BOOLEAN
    /\ calls \in [1..MaxCalls -> {NewCall(r) : r \in ConcurrentRequests}]

\* lines 88-96; the division of line 91 raises ZeroDivisionError on a zero
\* divisor, and the call then ends without a response
Begin(c) ==
    /\ calls[c].pc = "begin"
    /\ calls' = [calls EXCEPT ![c] =
            IF EffectiveTempo(calls[c].req.tempo) = 0
            THEN [@ EXCEPT !.lines = ExtractLines(calls[c].req.lyrics),
                           !.pc = "raised"]
            ELSE [@ EXCEPT !.lines = ExtractLines(calls[c].req.lyrics),
                           !.beat_sec = BeatSec(calls[c].req.tempo),
                           !.timestamps = << >>,
                           !.t = Zero,
                           !.notes = << >>,
                           !.i = 0,
                           !.pc = "for"]]
    /\ UNCHANGED MOCK_MODE

\* lines 97-105: the next line of the lyrics, its timestamp entry
LineStart(c) ==
    /\ calls[c].pc = "for"
    /\ calls[c].i < Len(calls[c].lines)
    /\ calls' = [calls EXCEPT ![c] =
            [@ EXCEPT !.timestamps =
                          Append(@, TimestampItem(calls[c].lines[calls[c].i + 1],
                                                  calls[c].t, calls[c].beat_sec)),
                      !.steps = Steps,
                      !.s = 0,
                      !.pc = "notes"]]
    /\ UNCHANGED MOCK_MODE

\* lines 105-110: one pass of the inner loop
AppendNote(c) ==
    /\ calls[c].pc = "notes"
    /\ calls[c].s < calls[c].steps
    /\ calls' = [calls EXCEPT ![c] =
            [@ EXCEPT !.notes = Append(@, Note(calls[c].i, calls[c].s,
                                               calls[c].t, calls[c].beat_sec)),
                      !.s = @ + 1]]
    /\ UNCHANGED MOCK_MODE

\* Advance on a cursor t that is one module-level variable of all calls
AdvanceSharedCursor(c) ==
    /\ calls[c].pc = "notes"
    /\ calls[c].s >= calls[c].steps
    /\ calls' = [d \in DOMAIN calls |->
            IF d = c
            THEN [calls[c] EXCEPT !.t = LineEnd(@, calls[c].beat_sec),
                                  !.i = @ + 1,
                                  !.pc = "for"]
            ELSE [calls[d] EXCEPT !.t = LineEnd(calls[c].t, calls[c].beat_sec)]]
    /\ UNCHANGED MOCK_MODE

\* line 111, and the outer loop's step to the next index
Advance(c) ==
    /\ calls[c].pc = "notes"
    /\ calls[c].s >= calls[c].steps
    /\ calls' = [calls EXCEPT ![c] =
            [@ EXCEPT !.t = LineEnd(@, calls[c].beat_sec),
                      !.i = @ + 1,
                      !.pc = "for"]]
    /\ UNCHANGED MOCK_MODE

\* lines 112-119
Return(c) ==
    /\ calls[c].pc = "for"
    /\ calls[c].i >= Len(calls[c].lines)
    /\ calls' = [calls EXCEPT ![c] =
            [@ EXCEPT !.response =
                          Some(MelodyPreviewResponse(MidiJson(calls[c].notes, calls[c].req),
                                                     GuideAudioUrl(MOCK_MODE),
                                                     calls[c].timestamps)),
                      !.pc = "done"]]
    /\ UNCHANGED MOCK_MODE

Next ==
    \/ \E c \in DOMAIN calls : Begin(c)
    \/ \E c \in DOMAIN calls : LineStart(c)
    \/ \E c \in DOMAIN calls : AppendNote(c)
    \/ \E c \in DOMAIN calls : Advance(c)
    \/ \E c \in DOMAIN calls : Return(c)

Spec == Init /\ [][Next]_vars
SpecConcurrent == InitConcurrent /\ [][Next]_vars

-----------------------------------------------------------------------------
(* Properties                                                               *)

Done(c) == calls[c].pc = "done"
Response(c) == calls[c].response[1]
LineTexts(timestamps) == [k \in 1..Len(timestamps) |-> timestamps[k].lineText]

\* The non-blank lines of a text, trimmed, read off the text by position: a
\* pair <<a, b>> frames one when both ends are no whitespace, no line boundary
\* lies between them, and only whitespace lies between the line boundaries
\* around them and them.
NoBoundaryIn(str, a, b) == \A j \in a..b : ~IsLineBoundary(str[j])
NonBlankFrames(str) ==
    {f \in (1..Len(str)) \X (1..Len(str)) :
        /\ f[1] <= f[2]
        /\ ~IsSpace(str[f[1]]) /\ ~IsSpace(str[f[2]])
        /\ NoBoundaryIn(str, f[1], f[2])
        /\ \A k \in 1..(f[1] - 1) : NoBoundaryIn(str, k, f[1]) => IsSpace(str[k])
        /\ \A k \in (f[2] + 1)..Len(str) : NoBoundaryIn(str, f[2], k) => IsSpace(str[k])}

RECURSIVE FramesInOrder(_)
FramesInOrder(fs) ==
    IF fs = {} THEN << >>
    ELSE LET first == CHOOSE f \in fs : \A g \in fs : f[1] <= g[1]
         IN  <<first>> \o FramesInOrder(fs \ {first})

NonBlankTrimmedLines(str) ==
    LET fs == FramesInOrder(NonBlankFrames(str))
    IN  [k \in 1..Len(fs) |-> SubSeq(str, fs[k][1], fs[k][2])]

\* C1: in every call, each timestamp entry ends at the millisecond where the
\* next one starts.
C1_Contiguous ==
    \A c \in DOMAIN calls :
        \A k \in 1..(Len(calls[c].timestamps) - 1) :
            calls[c].timestamps[k].end_ms = calls[c].timestamps[k + 1].start_ms

\* A finished call of three lines at tempo 100, where the float cursor has
\* left the exact grid (the third line ends at 3599 ms).
C1_Witness ==
    \E c \in DOMAIN calls :
        /\ Done(c)
        /\ calls[c].req.tempo = Some(100)
        /\ Len(Response(c).timestamps) = 3
        /\ Response(c).timestamps[2].end_ms = 2400
        /\ Response(c).timestamps[3].start_ms = 2400
        /\ Response(c).timestamps[3].end_ms = 3599

\* C2 (as claimed): for every integer tempo, the beat used by the timing math
\* is 60 / clamp(tempo, 60, 180).
Clamp(x, lo, hi) == Max(lo, Min(x, hi))
C2_BeatIsClampedTempo ==
    \A c \in DOMAIN calls :
        (calls[c].pc \notin {"begin", "raised"} /\ calls[c].req.tempo # None)
            => calls[c].beat_sec =
                   FloatDiv(FloatFromInt(60),
                            FloatFromInt(Clamp(calls[c].req.tempo[1], TEMPO_MIN, TEMPO_MAX)))

\* C3: the response echoes the request's tempo, key and style unchanged.
C3_EchoesRawFields ==
    \A c \in DOMAIN calls :
        Done(c) =>
            /\ Response(c).midiJson.tempo = calls[c].req.tempo
            /\ Response(c).midiJson.key = calls[c].req.key
            /\ Response(c).midiJson.style = calls[c].req.style

\* A finished call whose tempo 500 was clamped to 180 for the timing (the beat
\* is 1/3 s, so the line ends at 666 ms) and is echoed as 500.
C3_Witness ==
    \E c \in DOMAIN calls :
        /\ Done(c)
        /\ calls[c].req.tempo = Some(500)
        /\ calls[c].req.key = None
        /\ Response(c).midiJson.tempo = Some(500)
        /\ Response(c).timestamps[1].end_ms = 666

\* C4 (as claimed): for every non-empty lyrics text, the timestamp entries
\* carry the non-blank trimmed lines of the text, in order.
C4_EntriesAreLinesOfNonEmptyLyrics ==
    \A c \in DOMAIN calls :
        (Done(c) /\ calls[c].req.lyrics # << >>)
            => LineTexts(Response(c).timestamps) = NonBlankTrimmedLines(calls[c].req.lyrics)

\* C4 (amended): for every lyrics text with at least one non-blank line, the
\* timestamp entries carry the non-blank trimmed lines of the text, in order.
C4_EntriesAreNonBlankLines ==
    \A c \in DOMAIN calls :
        (Done(c) /\ NonBlankTrimmedLines(calls[c].req.lyrics) # << >>)
            => LineTexts(Response(c).timestamps) = NonBlankTrimmedLines(calls[c].req.lyrics)

\* A finished call on "aa\n a": a line to trim, two different lines in their
\* order.
C4_Witness ==
    \E c \in DOMAIN calls :
        /\ Done(c)
        /\ calls[c].req.lyrics = <<"a", "a", "\n", " ", "a">>
        /\ LineTexts(Response(c).timestamps) = << <<"a", "a">>, <<"a">> >>

\* C5: a response has four notes for each timestamp entry.
C5_FourNotesPerLine ==
    \A c \in DOMAIN calls :
        Done(c) => Len(Response(c).midiJson.notes) = 4 * Len(Response(c).timestamps)

\* A finished call in which a single line remains of a text with blank lines.
C5_Witness ==
    \E c \in DOMAIN calls :
        /\ Done(c)
        /\ Len(splitlines(calls[c].req.lyrics)) > 1
        /\ Len(Response(c).timestamps) = 1
        /\ Len(Response(c).midiJson.notes) = 4

\* C6: no call raises; every finished call has a response, with no empty
\* note list or timestamp list; a text without a non-blank line gets the two
\* fallback lines, hence 2 entries and 8 notes, and no other text does.
FallbackLines == <<Str_la_la_la, Str_dum_dum>>
C6_NeverFailsNeverEmpty ==
    \A c \in DOMAIN calls :
        /\ calls[c].pc # "raised"
        /\ Done(c) =>
            /\ calls[c].response # None
            /\ Response(c).timestamps # << >>
            /\ Response(c).midiJson.notes # << >>
            /\ NonBlankTrimmedLines(calls[c].req.lyrics) = << >>
                 => /\ LineTexts(Response(c).timestamps) = FallbackLines
                    /\ Len(Response(c).timestamps) = 2
                    /\ Len(Response(c).midiJson.notes) = 8
            /\ LineTexts(Response(c).timestamps) = FallbackLines
                 => NonBlankTrimmedLines(calls[c].req.lyrics) \in {<< >>, FallbackLines}

\* A finished call on a text that is not empty but all whitespace.
C6_Witness ==
    \E c \in DOMAIN calls :
        /\ Done(c)
        /\ calls[c].req.lyrics = <<" ", "\n", " ">>
        /\ LineTexts(Response(c).timestamps) = FallbackLines
        /\ Len(Response(c).midiJson.notes) = 8

\* C7: guideAudioUrl is the placeholder data URI when MOCK_MODE is true and
\* null when it is false, and the rest of the response is what the request
\* alone determines, whatever the flag.
C7_FlagGovernsOnlyGuideAudio ==
    \A c \in DOMAIN calls :
        Done(c) =>
            /\ MOCK_MODE => Response(c).guideAudioUrl = Some(GUIDE_AUDIO_DATA_URI)
            /\ ~MOCK_MODE => Response(c).guideAudioUrl = None
            /\ [Response(c) EXCEPT !.guideAudioUrl = None]
                   = GenerateAlone(calls[c].req, FALSE)

\* A finished call under MOCK_MODE = false: no guide audio, notes as ever.
C7_Witness ==
    \E c \in DOMAIN calls :
        /\ Done(c)
        /\ ~MOCK_MODE
        /\ Response(c).guideAudioUrl = None
        /\ Len(Response(c).midiJson.notes) = 12

\* C8: under every interleaving of the calls in flight, the response of each
\* call is the response of that call run alone on its request; so calls with
\* the same request return the same response.
C8_CallsIndependent ==
    /\ \A c \in DOMAIN calls :
           Done(c) => Response(c) = GenerateAlone(calls[c].req, MOCK_MODE)
    /\ \A c, d \in DOMAIN calls :
           (Done(c) /\ Done(d) /\ calls[c].req = calls[d].req)
               => calls[c].response = calls[d].response

\* One call has returned while another, on a different request, is inside its
\* second line with a cursor of its own.
C8_Witness ==
    \E c, d \in DOMAIN calls :
        /\ Done(c)
        /\ Len(Response(c).timestamps) = 1
        /\ calls[d].pc = "notes"
        /\ calls[d].i = 1
        /\ calls[d].s = 2
        /\ calls[d].req # calls[c].req
        /\ calls[d].t # calls[c].t

\* C9: the note at flat position 4*i + s (line i, step s, both from 0) has
\* midi = 60 + (i mod 5) * 2 + (s mod 3), which lies in 60..70.
C9_PitchPattern ==
    \A c \in DOMAIN calls :
        Done(c) =>
            /\ \A i \in 0..(Len(Response(c).timestamps) - 1) : \A s \in 0..3 :
                   /\ 4 * i + s + 1 <= Len(Response(c).midiJson.notes)
                   /\ Response(c).midiJson.notes[4 * i + s + 1].midi
                          = 60 + (i % 5) * 2 + (s % 3)
            /\ \A k \in 1..Len(Response(c).midiJson.notes) :
                   Response(c).midiJson.notes[k].midi \in 60..70

\* A finished call of six lines: the sixth line is back at the pitches of the
\* first.
C9_Witness ==
    \E c \in DOMAIN calls :
        /\ Done(c)
        /\ Len(Response(c).timestamps) = 6
        /\ Response(c).midiJson.notes[17].midi = 68
        /\ Response(c).midiJson.notes[21].midi = 60
        /\ Response(c).midiJson.notes[23].midi = 62

\* C10 (as claimed): entry i starts at floor(t_i * 1000) and ends at
\* floor((t_i + 2 * beat) * 1000) for the exact t_i = 2 * i * beat and
\* beat = 60 / effective_tempo, that is at floor(120000 * i / effective_tempo)
\* and floor(120000 * (i + 1) / effective_tempo).
C10_ExactSchedule ==
    \A c \in DOMAIN calls :
        Done(c) =>
            \A k \in 1..Len(Response(c).timestamps) :
                /\ Response(c).timestamps[k].start_ms
                       = (2 * 60 * 1000 * (k - 1)) \div EffectiveTempo(calls[c].req.tempo)
                /\ Response(c).timestamps[k].end_ms
                       = (2 * 60 * 1000 * k) \div EffectiveTempo(calls[c].req.tempo)

====
